---- MODULE Spec2Model ----
(***************************************************************************)
(* Model of the Data Transformation Graph (DTG) of constellation-core:     *)
(* crates/constellation-core/src/models/dtg.rs (DtgNode,                   *)
(* DataTransformationGraph) and the pipeline built by                      *)
(* examples/dtg_example.rs.                                                *)
(*                                                                         *)
(* Option<T> is modelled as a sequence: None is <<>>, Some(v) is <<v>>.    *)
(* A Uuid produced by Uuid::new_v4() is modelled as a fresh natural: the   *)
(* k-th node constructed gets id k.  chrono::Utc::now() reads the variable *)
(* clock, which only the action Tick advances.                             *)
(***************************************************************************)
EXTENDS Integers, Sequences, FiniteSets, TLC

\* ------------------------------------------------------------------ bounds
\* Spec (graph construction and status): nodes constructed, edges appended,
\* inputs per node, length of root_nodes.
MaxNodes == 2
MaxEdges == 2
MaxInputs == 1
MaxRoots == 2
\* SpecLedger: records appended to the chain, signatures appended.
MaxChain == 2
MaxSignatures == 2
\* SpecWorkers: operations each worker issues on its node.
MaxOps == 2
\* SpecAgent: interfaces an agent is constructed with.
MaxInterfaces == 2
\* SpecMcp: compliance requirements added to a security context.
MaxCompliance == 2
\* SpecDfs (acyclicity check): nodes constructed and edges appended.
DfsNodes == 3
DfsEdges == 3
\* Largest value of the clock.
MaxClock == 2

VARIABLES
    pending,      \* DtgNode values constructed and still owned by the caller: id -> node
    nodes,        \* DataTransformationGraph.nodes: id -> node
    root_nodes,   \* DataTransformationGraph.root_nodes: sequence of ids
    edges,        \* DataTransformationGraph.edges: sequence of DtgEdge
    status,       \* DataTransformationGraph.status
    started_at,   \* DataTransformationGraph.started_at
    completed_at, \* DataTransformationGraph.completed_at: Option<time>
    acyclic,      \* Option<bool>: what is_acyclic() returned on the present nodes and edges
    addedEmpty,   \* history: ids passed to add_node with an empty input list
    returned,     \* Option<id>: what the latest add_node call returned
    provenance,   \* the DtgProvenance of the graph
    ledgerCalls,  \* history: the calls made on the ledger, in order
    prev_status,  \* history: Option<status> the graph had before its latest mark_* call
    node,         \* SpecNode: Option<DtgNode>, one node driven through its methods
    clock,        \* the time chrono::Utc::now() returns
    pc,           \* SpecPipeline: index of the next statement of the example's main
    workerLog,    \* SpecWorkers: id -> the operations the node's worker has issued, in order
    agent,        \* SpecAgent: Option<Agent>
    lookup,       \* SpecAgent: Option<[protocol, supports, url]>, the answers of the agent
                  \* to supports_protocol(protocol) and get_interface_url(protocol)
    context       \* SpecMcp: Option<McpSecurityContext>

vars == <<pending, nodes, root_nodes, edges, status, started_at, completed_at, prev_status,
          acyclic, addedEmpty, returned, provenance, ledgerCalls, node, clock, pc, workerLog, agent, lookup, context>>

None == <<>>
Some(v) == <<v>>

Range(s) == {s[i] : i \in 1..Len(s)}

\* ------------------------------------------------------------- value sets
NodeStatuses == {"Pending", "Executing", "Completed", "Failed", "Cancelled", "Waiting"}

GraphStatuses == {"Constructing", "Ready", "Executing", "Completed",
                  "PartiallyCompleted", "Failed", "Cancelled"}

\* f64 scores are kept in hundredths: 1.0 is 100.
DefaultMetrics ==
    [cpu_time_ms |-> 0, memory_bytes |-> 0, network_bytes |-> 0, disk_bytes |-> 0,
     retry_count |-> 0, quality_score |-> 100, confidence_score |-> 100]

\* The metrics the example reports for its first node.
SampleMetrics ==
    [cpu_time_ms |-> 100, memory_bytes |-> 1048576, network_bytes |-> 1024,
     disk_bytes |-> 2048, retry_count |-> 0, quality_score |-> 95, confidence_score |-> 98]

MetricsInputs == {DefaultMetrics, SampleMetrics}
ErrorInputs == {"timeout", "bad input"}
\* DtgDataRef values, named by their id.
DataRefs == {"input_data"}
EdgeTypes == {"data_flow"}

\* ---------------------------------------------------------------- DtgNode
\* DtgNode::new stamping the nil id on every node.
DtgNodeNewNilId(id, skill_id, agent_id, now) ==
    [id |-> 0, skill_id |-> skill_id, agent_id |-> agent_id,
     inputs |-> <<>>, outputs |-> <<>>, metadata |-> {},
     started_at |-> now, completed_at |-> None,
     status |-> "Pending", error |-> None, metrics |-> DefaultMetrics]

DtgNode_new(id, skill_id, agent_id, now) ==
    [id |-> id, skill_id |-> skill_id, agent_id |-> agent_id,
     inputs |-> <<>>, outputs |-> <<>>, metadata |-> {},
     started_at |-> now, completed_at |-> None,
     status |-> "Pending", error |-> None, metrics |-> DefaultMetrics]

\* mark_executing that starts the node afresh: completion time and error cleared.
MarkExecutingClearsCompletion(n, now) ==
    [n EXCEPT !.status = "Executing", !.started_at = now,
              !.completed_at = None, !.error = None]

DtgNode_mark_executing(n, now) ==
    [n EXCEPT !.status = "Executing", !.started_at = now]

\* mark_completed that keeps the completion time of an earlier completion.
MarkCompletedKeepsFirstTime(n, metrics, now) ==
    [n EXCEPT !.status = "Completed",
              !.completed_at = IF @ = None THEN Some(now) ELSE @,
              !.metrics = metrics]

DtgNode_mark_completed(n, metrics, now) ==
    [n EXCEPT !.status = "Completed", !.completed_at = Some(now), !.metrics = metrics]

\* mark_failed that does not take a Completed node back to Failed.
MarkFailedKeepsCompleted(n, error, now) ==
    [n EXCEPT !.status = IF @ = "Completed" THEN @ ELSE "Failed",
              !.completed_at = Some(now),
              !.error = Some(error)]

\* mark_failed that keeps the error of an earlier failure.
MarkFailedKeepsFirstError(n, error, now) ==
    [n EXCEPT !.status = "Failed",
              !.completed_at = Some(now),
              !.error = IF @ = None THEN Some(error) ELSE @]

DtgNode_mark_failed(n, error, now) ==
    [n EXCEPT !.status = "Failed", !.completed_at = Some(now), !.error = Some(error)]

\* add_input that queues the node again (status back to Pending).
AddInputResetsPending(n, data_ref) ==
    [n EXCEPT !.inputs = Append(@, data_ref), !.status = "Pending"]

DtgNode_add_input(n, data_ref) ==
    [n EXCEPT !.inputs = Append(@, data_ref)]

DtgNode_add_output(n, data_ref) ==
    [n EXCEPT !.outputs = Append(@, data_ref)]

\* ------------------------------------------------ DataTransformationGraph
\* Ids of the nodes constructed so far (owned by the caller or by the graph).
Created == DOMAIN pending \cup DOMAIN nodes

InRoots(id) == id \in Range(root_nodes)

DtgEdge(source, target, data_ref, edge_type) ==
    [source |-> source, target |-> target, data_ref |-> data_ref,
     edge_type |-> edge_type, metadata |-> {}]

\* The id stamped on the graph by DataTransformationGraph::new.
GraphId == "dtg"

DtgProvenance_new(dtg_id, now) ==
    [dtg_id |-> dtg_id, transformation_chain |-> <<>>, input_lineage |-> <<>>,
     output_lineage |-> <<>>, agent_records |-> <<>>, signatures |-> <<>>,
     recorded_at |-> now]

\* DataTransformationGraph::new and DtgProvenance::new(dtg.id), and no node
\* constructed yet.
Init ==
    /\ pending = <<>>
    /\ nodes = <<>>
    /\ root_nodes = <<>>
    /\ edges = <<>>
    /\ status = "Constructing"
    /\ clock = 0
    /\ started_at = 0
    /\ completed_at = None
    /\ acyclic = None
    /\ addedEmpty = {}
    /\ returned = None
    /\ provenance = DtgProvenance_new(GraphId, 0)
    /\ ledgerCalls = <<>>
    /\ prev_status = None
    /\ node = None
    /\ pc = 1
    /\ workerLog = <<>>
    /\ agent = None
    /\ lookup = None
    /\ context = None

\* let n = DtgNode::new(skill_id, agent_id): the caller owns the new node.
new_node(skill_id, agent_id) ==
    /\ pending' = (Cardinality(Created) + 1
                    :> DtgNode_new(Cardinality(Created) + 1, skill_id, agent_id, clock))
                  @@ pending
    /\ UNCHANGED <<nodes, root_nodes, edges, status, started_at, completed_at, prev_status,
                   acyclic, addedEmpty, returned, provenance, ledgerCalls, node, clock>>

\* n.add_input(data_ref) on a node the caller owns.
pending_add_input(id, data_ref) ==
    /\ id \in DOMAIN pending
    /\ pending' = [pending EXCEPT ![id] = DtgNode_add_input(@, data_ref)]
    /\ UNCHANGED <<nodes, root_nodes, edges, status, started_at, completed_at, prev_status,
                   acyclic, addedEmpty, returned, provenance, ledgerCalls, node, clock>>

\* n.add_output(data_ref) on a node the caller owns.
pending_add_output(id, data_ref) ==
    /\ id \in DOMAIN pending
    /\ pending' = [pending EXCEPT ![id] = DtgNode_add_output(@, data_ref)]
    /\ UNCHANGED <<nodes, root_nodes, edges, status, started_at, completed_at, prev_status,
                   acyclic, addedEmpty, returned, provenance, ledgerCalls, node, clock>>

\* add_node that registers the root and leaves out the insertion.
AddNodeSkipsInsert(n) ==
    /\ root_nodes' = IF n.inputs = <<>>
                        THEN Append(root_nodes, n.id)
                        ELSE root_nodes
    /\ nodes' = nodes
    /\ addedEmpty' = IF n.inputs = <<>>
                        THEN addedEmpty \cup {n.id}
                        ELSE addedEmpty
    /\ acyclic' = None
    /\ returned' = Some(n.id)
    /\ UNCHANGED <<edges, status, started_at, completed_at, prev_status, provenance, ledgerCalls,
                   node, clock>>

\* add_node that keeps the entry the map already has for the id (or_insert).
AddNodeKeepsExisting(n) ==
    /\ root_nodes' = IF n.inputs = <<>>
                        THEN Append(root_nodes, n.id)
                        ELSE root_nodes
    /\ nodes' = nodes @@ (n.id :> n)
    /\ addedEmpty' = IF n.inputs = <<>>
                        THEN addedEmpty \cup {n.id}
                        ELSE addedEmpty
    /\ acyclic' = None
    /\ returned' = Some(n.id)
    /\ UNCHANGED <<edges, status, started_at, completed_at, prev_status, provenance, ledgerCalls,
                   node, clock>>

\* add_node deciding the root from the edges (no edge targets the node) instead
\* of the node's declared inputs.
AddNodeRootFromEdges(n) ==
    /\ root_nodes' = IF \A i \in 1..Len(edges) : edges[i].target # n.id
                        THEN Append(root_nodes, n.id)
                        ELSE root_nodes
    /\ nodes' = (n.id :> n) @@ nodes
    /\ addedEmpty' = IF n.inputs = <<>>
                        THEN addedEmpty \cup {n.id}
                        ELSE addedEmpty
    /\ acyclic' = None
    /\ returned' = Some(n.id)
    /\ UNCHANGED <<edges, status, started_at, completed_at, prev_status, provenance, ledgerCalls,
                   node, clock>>

\* dtg.add_node(n): the frame of pending is the caller's (n moved or cloned).
add_node(n) ==
    /\ root_nodes' = IF n.inputs = <<>>
                        THEN Append(root_nodes, n.id)
                        ELSE root_nodes
    /\ nodes' = (n.id :> n) @@ nodes
    /\ addedEmpty' = IF n.inputs = <<>>
                        THEN addedEmpty \cup {n.id}
                        ELSE addedEmpty
    /\ acyclic' = None
    /\ returned' = Some(n.id)
    /\ UNCHANGED <<edges, status, started_at, completed_at, prev_status, provenance, ledgerCalls,
                   node, clock>>

\* add_edge that puts the new edge at the head of the list.
AddEdgeAtHead(source, target, data_ref, edge_type) ==
    /\ edges' = <<DtgEdge(source, target, data_ref, edge_type)>> \o edges
    /\ acyclic' = None
    /\ UNCHANGED <<pending, nodes, root_nodes, status, started_at, completed_at, prev_status,
                   addedEmpty, returned, provenance, ledgerCalls, node, clock>>

\* add_edge that stores the endpoints the other way round.
AddEdgeSwapped(source, target, data_ref, edge_type) ==
    /\ edges' = Append(edges, DtgEdge(target, source, data_ref, edge_type))
    /\ acyclic' = None
    /\ UNCHANGED <<pending, nodes, root_nodes, status, started_at, completed_at, prev_status,
                   addedEmpty, returned, provenance, ledgerCalls, node, clock>>

\* add_edge that also takes the target out of root_nodes (roots re-derived
\* from the edges).
AddEdgeUnrootsTarget(source, target, data_ref, edge_type) ==
    /\ edges' = Append(edges, DtgEdge(source, target, data_ref, edge_type))
    /\ root_nodes' = LET Keep(id) == id # target IN SelectSeq(root_nodes, Keep)
    /\ acyclic' = None
    /\ UNCHANGED <<pending, nodes, status, started_at, completed_at, prev_status,
                   addedEmpty, returned, provenance, ledgerCalls, node, clock>>

add_edge(source, target, data_ref, edge_type) ==
    /\ edges' = Append(edges, DtgEdge(source, target, data_ref, edge_type))
    /\ acyclic' = None
    /\ UNCHANGED <<pending, nodes, root_nodes, status, started_at, completed_at, prev_status,
                   addedEmpty, returned, provenance, ledgerCalls, node, clock>>

Graph_mark_ready ==
    /\ status' = "Ready"
    /\ prev_status' = Some(status)
    /\ UNCHANGED <<pending, nodes, root_nodes, edges, started_at, completed_at,
                   acyclic, addedEmpty, returned, provenance, ledgerCalls, node, clock>>

Graph_mark_executing ==
    /\ status' = "Executing"
    /\ started_at' = clock
    /\ prev_status' = Some(status)
    /\ UNCHANGED <<pending, nodes, root_nodes, edges, completed_at,
                   acyclic, addedEmpty, returned, provenance, ledgerCalls, node, clock>>

\* mark_completed that is refused unless the graph is Executing.
GraphMarkCompletedGuarded ==
    /\ status = "Executing"
    /\ status' = "Completed"
    /\ completed_at' = Some(clock)
    /\ prev_status' = Some(status)
    /\ UNCHANGED <<pending, nodes, root_nodes, edges, started_at,
                   acyclic, addedEmpty, returned, provenance, ledgerCalls, node, clock>>

Graph_mark_completed ==
    /\ status' = "Completed"
    /\ completed_at' = Some(clock)
    /\ prev_status' = Some(status)
    /\ UNCHANGED <<pending, nodes, root_nodes, edges, started_at,
                   acyclic, addedEmpty, returned, provenance, ledgerCalls, node, clock>>

\* if let Some(node) = dtg.nodes.get_mut(&id) { node.mark_executing() }
stored_mark_executing(id) ==
    /\ id \in DOMAIN nodes
    /\ nodes' = [nodes EXCEPT ![id] = DtgNode_mark_executing(@, clock)]
    /\ UNCHANGED <<pending, root_nodes, edges, status, started_at, completed_at, prev_status,
                   acyclic, addedEmpty, returned, provenance, ledgerCalls, node, clock>>

stored_mark_completed(id, metrics) ==
    /\ id \in DOMAIN nodes
    /\ nodes' = [nodes EXCEPT ![id] = DtgNode_mark_completed(@, metrics, clock)]
    /\ UNCHANGED <<pending, root_nodes, edges, status, started_at, completed_at, prev_status,
                   acyclic, addedEmpty, returned, provenance, ledgerCalls, node, clock>>

\* mark_failed that fails every node of the graph with the same error.
StoredMarkFailedAll(id, error) ==
    /\ id \in DOMAIN nodes
    /\ nodes' = [k \in DOMAIN nodes |-> DtgNode_mark_failed(nodes[k], error, clock)]
    /\ UNCHANGED <<pending, root_nodes, edges, status, started_at, completed_at, prev_status,
                   acyclic, addedEmpty, returned, provenance, ledgerCalls, node, clock>>

stored_mark_failed(id, error) ==
    /\ id \in DOMAIN nodes
    /\ nodes' = [nodes EXCEPT ![id] = DtgNode_mark_failed(@, error, clock)]
    /\ UNCHANGED <<pending, root_nodes, edges, status, started_at, completed_at, prev_status,
                   acyclic, addedEmpty, returned, provenance, ledgerCalls, node, clock>>

stored_add_input(id, data_ref) ==
    /\ id \in DOMAIN nodes
    /\ nodes' = [nodes EXCEPT ![id] = DtgNode_add_input(@, data_ref)]
    /\ UNCHANGED <<pending, root_nodes, edges, status, started_at, completed_at, prev_status,
                   acyclic, addedEmpty, returned, provenance, ledgerCalls, node, clock>>

stored_add_output(id, data_ref) ==
    /\ id \in DOMAIN nodes
    /\ nodes' = [nodes EXCEPT ![id] = DtgNode_add_output(@, data_ref)]
    /\ UNCHANGED <<pending, root_nodes, edges, status, started_at, completed_at, prev_status,
                   acyclic, addedEmpty, returned, provenance, ledgerCalls, node, clock>>

\* ----------------------------------------------------------------- queries
\* get_dependencies that returns each source once (de-duplicated, first
\* occurrence kept).
GetDependenciesDeduplicated(node_id) ==
    LET Keep(edge) == edge.target = node_id
        kept == SelectSeq(edges, Keep)
        firsts == {i \in 1..Len(kept) : \A j \in 1..(i - 1) : kept[j].source # kept[i].source}
        Nth(k) == CHOOSE i \in firsts : Cardinality({j \in firsts : j < i}) = k - 1
    IN  [k \in 1..Cardinality(firsts) |-> kept[Nth(k)].source]

get_dependencies(node_id) ==
    LET Keep(edge) == edge.target = node_id
        kept == SelectSeq(edges, Keep)
    IN  [i \in 1..Len(kept) |-> kept[i].source]

\* get_dependents with the filter of get_dependencies (edge.target == node_id).
GetDependentsFilterTarget(node_id) ==
    LET Keep(edge) == edge.target = node_id
        kept == SelectSeq(edges, Keep)
    IN  [i \in 1..Len(kept) |-> kept[i].target]

get_dependents(node_id) ==
    LET Keep(edge) == edge.source = node_id
        kept == SelectSeq(edges, Keep)
    IN  [i \in 1..Len(kept) |-> kept[i].target]

\* The orders in which HashMap::keys() may yield the keys S.
KeyOrders(S) == {o \in [1..Cardinality(S) -> S] : Range(o) = S}

RECURSIVE has_cycle_dfs(_, _, _, _), DfsLoop(_, _, _, _, _), OuterLoop(_, _, _, _, _)

\* The loop of has_cycle_dfs without the visited test: a dependent that is not
\* on the recursion stack is explored, visited before or not.
DfsLoopNoVisitedCheck(dependents, i, visited, recursion_stack, entered) ==
    IF i > Len(dependents)
    THEN [found |-> FALSE, visited |-> visited, recursion_stack |-> recursion_stack,
          entered |-> entered]
    ELSE IF dependents[i] \in recursion_stack
    THEN [found |-> TRUE, visited |-> visited, recursion_stack |-> recursion_stack,
          entered |-> entered]
    ELSE LET r == has_cycle_dfs(dependents[i], visited, recursion_stack, entered)
         IN  IF r.found
             THEN r
             ELSE DfsLoop(dependents, i + 1, r.visited, r.recursion_stack, r.entered)

\* The for loop of has_cycle_dfs over get_dependents(node_id), from its i-th
\* element on.  The result is [found, visited, recursion_stack, entered];
\* entered lists the ids has_cycle_dfs was called with, in call order.
DfsLoop(dependents, i, visited, recursion_stack, entered) ==
    IF i > Len(dependents)
    THEN [found |-> FALSE, visited |-> visited, recursion_stack |-> recursion_stack,
          entered |-> entered]
    ELSE IF dependents[i] \notin visited
    THEN LET r == has_cycle_dfs(dependents[i], visited, recursion_stack, entered)
         IN  IF r.found
             THEN r
             ELSE DfsLoop(dependents, i + 1, r.visited, r.recursion_stack, r.entered)
    ELSE IF dependents[i] \in recursion_stack
    THEN [found |-> TRUE, visited |-> visited, recursion_stack |-> recursion_stack,
          entered |-> entered]
    ELSE DfsLoop(dependents, i + 1, visited, recursion_stack, entered)

\* has_cycle_dfs without its final recursion_stack.remove(&node_id).
HasCycleDfsNoRemove(node_id, visited, recursion_stack, entered) ==
    DfsLoop(get_dependents(node_id), 1,
            visited \cup {node_id}, recursion_stack \cup {node_id},
            Append(entered, node_id))

\* has_cycle_dfs without its recursion_stack.insert(node_id).
HasCycleDfsNoInsert(node_id, visited, recursion_stack, entered) ==
    DfsLoop(get_dependents(node_id), 1, visited \cup {node_id}, recursion_stack,
            Append(entered, node_id))

has_cycle_dfs(node_id, visited, recursion_stack, entered) ==
    LET r == DfsLoop(get_dependents(node_id), 1,
                     visited \cup {node_id}, recursion_stack \cup {node_id},
                     Append(entered, node_id))
    IN  IF r.found
        THEN r
        ELSE [r EXCEPT !.recursion_stack = @ \ {node_id}]

\* is_acyclic's loop ending (break for continue) at the first key already visited.
OuterLoopStopsAtVisited(keys, i, visited, recursion_stack, entered) ==
    IF i > Len(keys)
    THEN [result |-> TRUE, entered |-> entered]
    ELSE IF keys[i] \notin visited
    THEN LET r == has_cycle_dfs(keys[i], visited, recursion_stack, entered)
         IN  IF r.found
             THEN [result |-> FALSE, entered |-> r.entered]
             ELSE OuterLoop(keys, i + 1, r.visited, r.recursion_stack, r.entered)
    ELSE [result |-> TRUE, entered |-> entered]

\* is_acyclic's loop searching only from the key the map yields first.
OuterLoopFirstKeyOnly(keys, i, visited, recursion_stack, entered) ==
    IF i > Len(keys)
    THEN [result |-> TRUE, entered |-> entered]
    ELSE LET r == has_cycle_dfs(keys[i], visited, recursion_stack, entered)
         IN  [result |-> ~r.found, entered |-> r.entered]

\* The for loop of is_acyclic over self.nodes.keys(), yielded in the order keys.
\* The result is [result, entered].
OuterLoop(keys, i, visited, recursion_stack, entered) ==
    IF i > Len(keys)
    THEN [result |-> TRUE, entered |-> entered]
    ELSE IF keys[i] \notin visited
    THEN LET r == has_cycle_dfs(keys[i], visited, recursion_stack, entered)
         IN  IF r.found
             THEN [result |-> FALSE, entered |-> r.entered]
             ELSE OuterLoop(keys, i + 1, r.visited, r.recursion_stack, r.entered)
    ELSE OuterLoop(keys, i + 1, visited, recursion_stack, entered)

is_acyclic(keys) == OuterLoop(keys, 1, {}, {}, <<>>).result

\* A call of dtg.is_acyclic(); the hash map yields its keys in some order.
call_is_acyclic ==
    /\ \E keys \in KeyOrders(DOMAIN nodes) : acyclic' = Some(is_acyclic(keys))
    /\ UNCHANGED <<pending, nodes, root_nodes, edges, status, started_at, completed_at, prev_status,
                   addedEmpty, returned, provenance, ledgerCalls, node, clock>>

\* Time passes between two statements.
Tick ==
    /\ clock < MaxClock
    /\ clock' = clock + 1
    /\ UNCHANGED <<pending, nodes, root_nodes, edges, status, started_at, completed_at, prev_status,
                   acyclic, addedEmpty, returned, provenance, ledgerCalls, node, pc, workerLog, agent, lookup, context>>

\* ---------------------------------------------------------------- Spec
\* Any caller of the graph: constructs nodes, declares inputs, adds nodes
\* (moved or cloned) and edges, and reports node and graph status.
NewNode ==
    /\ Cardinality(Created) < MaxNodes
    /\ new_node("skill", "agent")
    /\ UNCHANGED <<pc, workerLog, agent, lookup, context>>

PendingAddInput ==
    \E id \in DOMAIN pending, d \in DataRefs :
        /\ Len(pending[id].inputs) < MaxInputs
        /\ pending_add_input(id, d)
        /\ UNCHANGED <<pc, workerLog, agent, lookup, context>>

\* dtg.add_node(n) with a node the caller constructed: n is moved into the graph.
AddNode ==
    \E id \in DOMAIN pending :
        /\ pending[id].inputs # <<>> \/ Len(root_nodes) < MaxRoots
        /\ add_node(pending[id])
        /\ pending' = [i \in DOMAIN pending \ {id} |-> pending[i]]
        /\ UNCHANGED <<pc, workerLog, agent, lookup, context>>

\* The clones a caller can add again: a stored node as it is, or with one more
\* input declared on the clone.
ClonesOf(id) ==
    {nodes[id]} \cup
    {DtgNode_add_input(nodes[id], d) : d \in {x \in DataRefs : Len(nodes[id].inputs) < MaxInputs}}

\* dtg.add_node(c) with c a clone of a node already stored (DtgNode is Clone and
\* its id is a public field): the id is added a second time.
AddClone ==
    \E id \in DOMAIN nodes : \E c \in ClonesOf(id) :
        /\ c.inputs # <<>> \/ Len(root_nodes) < MaxRoots
        /\ add_node(c)
        /\ UNCHANGED <<pending, pc, workerLog, agent, lookup, context>>

AddEdge ==
    \E s \in Created, t \in Created, d \in DataRefs, ty \in EdgeTypes :
        /\ Len(edges) < MaxEdges
        /\ add_edge(s, t, d, ty)
        /\ UNCHANGED <<pc, workerLog, agent, lookup, context>>

GraphMarkReady == Graph_mark_ready /\ UNCHANGED <<pc, workerLog, agent, lookup, context>>

GraphMarkExecuting == Graph_mark_executing /\ UNCHANGED <<pc, workerLog, agent, lookup, context>>

GraphMarkCompleted == Graph_mark_completed /\ UNCHANGED <<pc, workerLog, agent, lookup, context>>

StoredMarkExecuting ==
    \E id \in DOMAIN nodes : stored_mark_executing(id) /\ UNCHANGED <<pc, workerLog, agent, lookup, context>>

StoredMarkCompleted ==
    \E id \in DOMAIN nodes : stored_mark_completed(id, SampleMetrics) /\ UNCHANGED <<pc, workerLog, agent, lookup, context>>

StoredMarkFailed ==
    \E id \in DOMAIN nodes : stored_mark_failed(id, "timeout") /\ UNCHANGED <<pc, workerLog, agent, lookup, context>>

StoredAddInput ==
    \E id \in DOMAIN nodes, d \in DataRefs :
        /\ Len(nodes[id].inputs) < MaxInputs
        /\ stored_add_input(id, d)
        /\ UNCHANGED <<pc, workerLog, agent, lookup, context>>

Next ==
    \/ NewNode
    \/ PendingAddInput
    \/ AddNode
    \/ AddClone
    \/ AddEdge
    \/ GraphMarkReady
    \/ GraphMarkExecuting
    \/ GraphMarkCompleted
    \/ StoredMarkExecuting
    \/ StoredMarkCompleted
    \/ StoredMarkFailed
    \/ StoredAddInput

Spec == Init /\ [][Next]_vars

\* -------------------------------------------------------------- SpecDfs
\* A caller that builds a graph of default nodes and edges between any ids it
\* knows (nodes it constructed, added to the graph or not) and calls
\* is_acyclic() at any time.
DfsNewNode ==
    /\ Cardinality(Created) < DfsNodes
    /\ new_node("skill", "agent")
    /\ UNCHANGED <<pc, workerLog, agent, lookup, context>>

DfsAddNode ==
    \E id \in DOMAIN pending :
        /\ add_node(pending[id])
        /\ pending' = [i \in DOMAIN pending \ {id} |-> pending[i]]
        /\ UNCHANGED <<pc, workerLog, agent, lookup, context>>

DfsAddEdge ==
    \E s \in Created, t \in Created, d \in DataRefs, ty \in EdgeTypes :
        /\ Len(edges) < DfsEdges
        /\ add_edge(s, t, d, ty)
        /\ UNCHANGED <<pc, workerLog, agent, lookup, context>>

IsAcyclic == call_is_acyclic /\ UNCHANGED <<pc, workerLog, agent, lookup, context>>

NextDfs ==
    \/ DfsNewNode
    \/ DfsAddNode
    \/ DfsAddEdge
    \/ IsAcyclic

SpecDfs == Init /\ [][NextDfs]_vars

\* ------------------------------------------------------------- SpecNode
\* One DtgNode driven through its methods in any order, with time passing.
NodeNew ==
    /\ node = None
    /\ node' = Some(DtgNode_new(1, "skill", "agent", clock))
    /\ UNCHANGED <<pending, nodes, root_nodes, edges, status, started_at, completed_at, prev_status,
                   acyclic, addedEmpty, returned, provenance, ledgerCalls, clock, pc, workerLog, agent, lookup, context>>

NodeMarkExecuting ==
    /\ node # None
    /\ node' = Some(DtgNode_mark_executing(node[1], clock))
    /\ UNCHANGED <<pending, nodes, root_nodes, edges, status, started_at, completed_at, prev_status,
                   acyclic, addedEmpty, returned, provenance, ledgerCalls, clock, pc, workerLog, agent, lookup, context>>

NodeMarkCompleted ==
    /\ node # None
    /\ \E m \in MetricsInputs : node' = Some(DtgNode_mark_completed(node[1], m, clock))
    /\ UNCHANGED <<pending, nodes, root_nodes, edges, status, started_at, completed_at, prev_status,
                   acyclic, addedEmpty, returned, provenance, ledgerCalls, clock, pc, workerLog, agent, lookup, context>>

NodeMarkFailed ==
    /\ node # None
    /\ \E e \in ErrorInputs : node' = Some(DtgNode_mark_failed(node[1], e, clock))
    /\ UNCHANGED <<pending, nodes, root_nodes, edges, status, started_at, completed_at, prev_status,
                   acyclic, addedEmpty, returned, provenance, ledgerCalls, clock, pc, workerLog, agent, lookup, context>>

NodeAddInput ==
    /\ node # None
    /\ Len(node[1].inputs) < MaxInputs
    /\ \E d \in DataRefs : node' = Some(DtgNode_add_input(node[1], d))
    /\ UNCHANGED <<pending, nodes, root_nodes, edges, status, started_at, completed_at, prev_status,
                   acyclic, addedEmpty, returned, provenance, ledgerCalls, clock, pc, workerLog, agent, lookup, context>>

NodeAddOutput ==
    /\ node # None
    /\ Len(node[1].outputs) < MaxInputs
    /\ \E d \in DataRefs : node' = Some(DtgNode_add_output(node[1], d))
    /\ UNCHANGED <<pending, nodes, root_nodes, edges, status, started_at, completed_at, prev_status,
                   acyclic, addedEmpty, returned, provenance, ledgerCalls, clock, pc, workerLog, agent, lookup, context>>

NextNode ==
    \/ NodeNew
    \/ NodeMarkExecuting
    \/ NodeMarkCompleted
    \/ NodeMarkFailed
    \/ NodeAddInput
    \/ NodeAddOutput
    \/ Tick

SpecNode == Init /\ [][NextNode]_vars

\* ------------------------------------------------------ graph properties
\* The (source, target) relation of the edge list, and its transitive closure,
\* computed from the edge list alone.
EdgePairs == {<<edges[i].source, edges[i].target>> : i \in 1..Len(edges)}

RECURSIVE TransitiveClosure(_)
TransitiveClosure(R) ==
    LET Step == R \cup {<<x[1][1], x[2][2]>> : x \in {y \in R \X R : y[1][2] = y[2][1]}}
    IN  IF Step = R THEN R ELSE TransitiveClosure(Step)

HasDirectedCycle == \E p \in TransitiveClosure(EdgePairs) : p[1] = p[2]

EndpointsExist ==
    \A i \in 1..Len(edges) :
        edges[i].source \in DOMAIN nodes /\ edges[i].target \in DOMAIN nodes

\* C1: when every edge joins two added nodes and the edges contain no directed
\* cycle, is_acyclic() returns true, whatever the order of the insertions and
\* the order in which the node map yields its keys.
C1_AcyclicGraphAccepted ==
    (acyclic # None /\ EndpointsExist /\ ~HasDirectedCycle) => acyclic = Some(TRUE)

\* is_acyclic() has returned true on three added nodes and three edges, two of
\* which reach the same node (it is visited twice, the second time off the stack).
C1_Witness ==
    /\ acyclic = Some(TRUE)
    /\ EndpointsExist
    /\ ~HasDirectedCycle
    /\ Cardinality(DOMAIN nodes) = 3
    /\ Len(edges) = 3
    /\ \E i \in 1..Len(edges), j \in 1..Len(edges) :
          edges[i].target = edges[j].target /\ edges[i].source # edges[j].source

\* C2: when every edge joins two added nodes and the edges contain a directed
\* cycle (a self-loop, a 2-cycle, a 3-cycle), is_acyclic() returns false,
\* whatever node the traversal starts from.
C2_CycleRejected ==
    (acyclic # None /\ EndpointsExist /\ HasDirectedCycle) => acyclic = Some(FALSE)

\* is_acyclic() has returned false on the cycle 1 -> 2 -> 3 -> 1 of added nodes.
C2_Witness ==
    /\ acyclic = Some(FALSE)
    /\ EndpointsExist
    /\ EdgePairs = {<<1, 2>>, <<2, 3>>, <<3, 1>>}

\* --------------------------------------------------------- SpecPipeline
\* The statements of main in examples/dtg_example.rs that act on the graph and
\* its nodes, in program order: the pipeline validate -> enrich -> analyze.
\* The nodes get the ids 1, 2, 3 in the order they are constructed.
ValidateId == 1
EnrichId == 2
AnalyzeId == 3

Node2Metrics ==
    [cpu_time_ms |-> 200, memory_bytes |-> 2097152, network_bytes |-> 2048,
     disk_bytes |-> 4096, retry_count |-> 1, quality_score |-> 90, confidence_score |-> 95]

Node3Metrics ==
    [cpu_time_ms |-> 150, memory_bytes |-> 3145728, network_bytes |-> 1024,
     disk_bytes |-> 1024, retry_count |-> 0, quality_score |-> 98, confidence_score |-> 99]

Main ==
    << [op |-> "new", skill |-> "data_validation", agent |-> "validator_agent"],
       [op |-> "add_input", id |-> ValidateId, ref |-> "input_data"],
       [op |-> "add_output", id |-> ValidateId, ref |-> "validation_output"],
       [op |-> "add_node", id |-> ValidateId],
       [op |-> "new", skill |-> "data_enrichment", agent |-> "enricher_agent"],
       [op |-> "add_input", id |-> EnrichId, ref |-> "validation_output"],
       [op |-> "add_output", id |-> EnrichId, ref |-> "enriched_output"],
       [op |-> "add_node", id |-> EnrichId],
       [op |-> "new", skill |-> "data_analysis", agent |-> "analyzer_agent"],
       [op |-> "add_input", id |-> AnalyzeId, ref |-> "enriched_output"],
       [op |-> "add_output", id |-> AnalyzeId, ref |-> "analysis_output"],
       [op |-> "add_node", id |-> AnalyzeId],
       [op |-> "add_edge", source |-> ValidateId, target |-> EnrichId,
        ref |-> "validation_output", type |-> "data_flow"],
       [op |-> "add_edge", source |-> EnrichId, target |-> AnalyzeId,
        ref |-> "enriched_output", type |-> "data_flow"],
       [op |-> "mark_ready"],
       [op |-> "is_acyclic"],
       [op |-> "mark_executing"],
       [op |-> "node_mark_executing", id |-> ValidateId],
       [op |-> "node_mark_completed", id |-> ValidateId, metrics |-> SampleMetrics],
       [op |-> "node_mark_executing", id |-> EnrichId],
       [op |-> "node_mark_completed", id |-> EnrichId, metrics |-> Node2Metrics],
       [op |-> "node_mark_executing", id |-> AnalyzeId],
       [op |-> "node_mark_completed", id |-> AnalyzeId, metrics |-> Node3Metrics],
       [op |-> "mark_completed"] >>

\* The effect of one statement of Main on everything but pc.
Execute(stmt) ==
    \/ /\ stmt.op = "new"
       /\ new_node(stmt.skill, stmt.agent)
    \/ /\ stmt.op = "add_input"
       /\ pending_add_input(stmt.id, stmt.ref)
    \/ /\ stmt.op = "add_output"
       /\ pending_add_output(stmt.id, stmt.ref)
    \/ /\ stmt.op = "add_node"
       /\ add_node(pending[stmt.id])
       /\ pending' = [i \in DOMAIN pending \ {stmt.id} |-> pending[i]]
    \/ /\ stmt.op = "add_edge"
       /\ add_edge(stmt.source, stmt.target, stmt.ref, stmt.type)
    \/ /\ stmt.op = "mark_ready"
       /\ Graph_mark_ready
    \/ /\ stmt.op = "is_acyclic"
       /\ call_is_acyclic
    \/ /\ stmt.op = "mark_executing"
       /\ Graph_mark_executing
    \/ /\ stmt.op = "node_mark_executing"
       /\ stored_mark_executing(stmt.id)
    \/ /\ stmt.op = "node_mark_completed"
       /\ stored_mark_completed(stmt.id, stmt.metrics)
    \/ /\ stmt.op = "mark_completed"
       /\ Graph_mark_completed

MainStep ==
    /\ pc <= Len(Main)
    /\ Execute(Main[pc])
    /\ pc' = pc + 1
    /\ UNCHANGED <<workerLog, agent, lookup, context>>

MainDone == pc = Len(Main) + 1

NextPipeline ==
    \/ MainStep
    \/ Tick

SpecPipeline == Init /\ [][NextPipeline]_vars

\* Positions of Main whose statement is op.
MainAt(op) == {i \in 1..Len(Main) : Main[i].op = op}

\* C3: in the example's pipeline, once is_acyclic() has been called it returned
\* true and root_nodes is [validate_id], and when main is done the three nodes
\* are Completed and the graph status is Completed.
C3_PipelineRootIsValidate ==
    /\ (\A i \in MainAt("is_acyclic") : pc > i) =>
           (root_nodes = <<ValidateId>> /\ acyclic = Some(TRUE))
    /\ MainDone =>
           /\ \A id \in {ValidateId, EnrichId, AnalyzeId} : nodes[id].status = "Completed"
           /\ status = "Completed"

\* -------------------------------------------------------- node properties
TerminalNodeStatuses == {"Completed", "Failed", "Cancelled"}

\* C6: a node's completed_at is set if and only if its status is Completed,
\* Failed or Cancelled.
C6_CompletedAtIffTerminal ==
    node # None =>
        (node[1].completed_at # None <=> node[1].status \in TerminalNodeStatuses)

\* C7: a node's error is set only when its status is Failed.
C7_ErrorOnlyWhenFailed ==
    node # None => (node[1].error # None => node[1].status = "Failed")

\* C8: once a node's status is Completed, Failed or Cancelled, no operation on
\* the node changes its status.
C8_TerminalNodeStatusAbsorbing ==
    [][(node # None /\ node[1].status \in TerminalNodeStatuses)
          => node'[1].status = node[1].status]_vars

TerminalGraphStatuses == {"Completed", "PartiallyCompleted", "Failed", "Cancelled"}

\* C9: the graph status changes only along Constructing -> Ready -> Executing
\* -> a terminal status: it never moves backward, never skips a stage and
\* never leaves a terminal status.
C9_GraphLifecycleOrder ==
    [][status' # status =>
          \/ status = "Constructing" /\ status' = "Ready"
          \/ status = "Ready" /\ status' = "Executing"
          \/ status = "Executing" /\ status' \in TerminalGraphStatuses]_vars

\* C10: for every edge (s, t), t is in get_dependents(s) and s is in
\* get_dependencies(t); every id get_dependencies(n) returns is the source of
\* an edge targeting n, every id get_dependents(n) returns the target of an
\* edge leaving n.
C10_DependenciesAndDependentsInverse ==
    /\ \A i \in 1..Len(edges) :
          /\ edges[i].target \in Range(get_dependents(edges[i].source))
          /\ edges[i].source \in Range(get_dependencies(edges[i].target))
    /\ \A n \in Created :
          /\ \A s \in Range(get_dependencies(n)) : <<s, n>> \in EdgePairs
          /\ \A t \in Range(get_dependents(n)) : <<n, t>> \in EdgePairs

\* Edges 1 -> 2, 1 -> 3, 2 -> 3: node 1 has two dependents, node 3 two
\* dependencies.
C10_Witness ==
    /\ Len(edges) = 3
    /\ get_dependents(1) = <<2, 3>>
    /\ get_dependencies(3) = <<1, 2>>
    /\ get_dependencies(1) = <<>>

\* The sources of the first k edges that target n, one entry per edge, in the
\* order of the edge list; and the same with source and target swapped.
RECURSIVE SourcesInto(_, _), TargetsFrom(_, _)
SourcesInto(n, k) ==
    IF k = 0 THEN <<>>
    ELSE IF edges[k].target = n
         THEN Append(SourcesInto(n, k - 1), edges[k].source)
         ELSE SourcesInto(n, k - 1)

TargetsFrom(n, k) ==
    IF k = 0 THEN <<>>
    ELSE IF edges[k].source = n
         THEN Append(TargetsFrom(n, k - 1), edges[k].target)
         ELSE TargetsFrom(n, k - 1)

\* C11: get_dependencies(n) is the sequence of the sources of the edges whose
\* target is n, in edge insertion order, one entry per edge (parallel edges
\* are not de-duplicated); get_dependents(n) is the same with source and
\* target swapped.
C11_QueriesFollowEdgeOrderWithDuplicates ==
    \A n \in Created :
        /\ get_dependencies(n) = SourcesInto(n, Len(edges))
        /\ get_dependents(n) = TargetsFrom(n, Len(edges))

\* Edges 3 -> 2, 1 -> 2, 1 -> 2: the dependencies of 2 are 3, 1, 1 (insertion
\* order, the parallel edge twice).
C11_Witness ==
    /\ Len(edges) = 3
    /\ get_dependencies(2) = <<3, 1, 1>>
    /\ get_dependents(1) = <<2, 2>>

\* ------------------------------------------------ node call postconditions
\* The step is the call node.mark_completed(m) / node.mark_failed(e).
IsMarkCompleted(m) ==
    /\ node # None
    /\ node' = Some(DtgNode_mark_completed(node[1], m, clock))
    /\ clock' = clock

IsMarkFailed(e) ==
    /\ node # None
    /\ node' = Some(DtgNode_mark_failed(node[1], e, clock))
    /\ clock' = clock

\* C12: right after mark_completed(m), from any prior state, the status is
\* Completed, the metrics are m and completed_at is set to a time that is not
\* before started_at (the clock never goes back).
C12_MarkCompletedPostcondition ==
    [][\A m \in MetricsInputs :
          IsMarkCompleted(m) =>
              /\ node'[1].status = "Completed"
              /\ node'[1].metrics = m
              /\ node'[1].completed_at # None
              /\ node'[1].completed_at[1] >= node'[1].started_at]_vars

\* A node that failed, was restarted later (started_at > 0) and then completed.
C12_Witness ==
    /\ node # None
    /\ node[1].status = "Completed"
    /\ node[1].metrics = SampleMetrics
    /\ node[1].error # None
    /\ node[1].started_at > 0
    /\ node[1].completed_at # None
    /\ node[1].completed_at[1] >= node[1].started_at

\* C13: right after mark_failed(e), from any prior state, the status is
\* Failed, the error is e and completed_at is set.
C13_MarkFailedPostcondition ==
    [][\A e \in ErrorInputs :
          IsMarkFailed(e) =>
              /\ node'[1].status = "Failed"
              /\ node'[1].error = Some(e)
              /\ node'[1].completed_at # None]_vars

\* A node that completed with metrics, then failed twice: the error is the
\* one of the latest call.
C13_Witness ==
    /\ node # None
    /\ node[1].status = "Failed"
    /\ node[1].metrics = SampleMetrics
    /\ node[1].error = Some("bad input")
    /\ node[1].completed_at = Some(MaxClock)

\* ---------------------------------------------------------- DtgProvenance
\* The TransformationRecord a caller builds for node n (the code has no
\* constructor: the struct's fields are public).
TransformationRecord(n, now, hash) ==
    [node_id |-> n.id, agent_id |-> n.agent_id, skill_id |-> n.skill_id,
     inputs |-> n.inputs, outputs |-> n.outputs, parameters |-> {},
     timestamp |-> now, transformation_hash |-> hash]

CryptographicSignature(signer, algorithm, signature, now) ==
    [signer |-> signer, algorithm |-> algorithm, signature |-> signature,
     public_key |-> None, signed_at |-> now]

\* add_transformation that puts the record at the head of the chain.
AddTransformationAtHead(record) ==
    /\ provenance' = [provenance EXCEPT !.transformation_chain = <<record>> \o @]
    /\ UNCHANGED <<pending, nodes, root_nodes, edges, status, started_at, completed_at, prev_status,
                   acyclic, addedEmpty, returned, node, clock>>

add_transformation(record) ==
    /\ provenance' = [provenance EXCEPT !.transformation_chain = Append(@, record)]
    /\ UNCHANGED <<pending, nodes, root_nodes, edges, status, started_at, completed_at, prev_status,
                   acyclic, addedEmpty, returned, node, clock>>

\* add_signature that keeps one signature per signer (a second one by the same
\* signer is dropped).
AddSignatureOncePerSigner(signer, algorithm, signature) ==
    /\ provenance' =
          IF \E i \in 1..Len(provenance.signatures) : provenance.signatures[i].signer = signer
          THEN provenance
          ELSE [provenance EXCEPT !.signatures =
                   Append(@, CryptographicSignature(signer, algorithm, signature, clock))]
    /\ UNCHANGED <<pending, nodes, root_nodes, edges, status, started_at, completed_at, prev_status,
                   acyclic, addedEmpty, returned, node, clock>>

add_signature(signer, algorithm, signature) ==
    /\ provenance' = [provenance EXCEPT !.signatures =
                         Append(@, CryptographicSignature(signer, algorithm, signature, clock))]
    /\ UNCHANGED <<pending, nodes, root_nodes, edges, status, started_at, completed_at, prev_status,
                   acyclic, addedEmpty, returned, node, clock>>

\* verify_signatures that asks every signature for a public key.
VerifySignaturesNeedsPublicKey ==
    /\ provenance.signatures # <<>>
    /\ \A i \in 1..Len(provenance.signatures) : provenance.signatures[i].public_key # None

verify_signatures == provenance.signatures # <<>>

\* ----------------------------------------------------------- SpecLedger
\* An executor that adds nodes to the graph, reports completions, and appends
\* records and signatures to the ledger, in any order.
SignerInputs == {"alice", "bob"}
AlgorithmInputs == {"ed25519"}
SignatureInputs == {"c2ln"}
HashInputs == {"h1"}

\* The nodes a caller can build a record for: those it constructed, in the
\* graph or not.
KnownNodes == {pending[id] : id \in DOMAIN pending} \cup {nodes[id] : id \in DOMAIN nodes}

AddTransformation ==
    \E n \in KnownNodes, h \in HashInputs :
        /\ Len(provenance.transformation_chain) < MaxChain
        /\ add_transformation(TransformationRecord(n, clock, h))
        /\ ledgerCalls' = Append(ledgerCalls,
                                 [op |-> "add_transformation",
                                  record |-> TransformationRecord(n, clock, h)])
        /\ UNCHANGED <<pc, workerLog, agent, lookup, context>>

AddSignature ==
    \E signer \in SignerInputs, alg \in AlgorithmInputs, sig \in SignatureInputs :
        /\ Len(provenance.signatures) < MaxSignatures
        /\ add_signature(signer, alg, sig)
        /\ ledgerCalls' = Append(ledgerCalls,
                                 [op |-> "add_signature", signer |-> signer,
                                  algorithm |-> alg, signature |-> sig])
        /\ UNCHANGED <<pc, workerLog, agent, lookup, context>>

NextLedger ==
    \/ NewNode
    \/ AddNode
    \/ StoredMarkCompleted
    \/ AddTransformation
    \/ AddSignature

SpecLedger == Init /\ [][NextLedger]_vars

\* ------------------------------------------------- ledger properties
IsAddSignatureCall(c) == c.op = "add_signature"
IsAddTransformationCall(c) == c.op = "add_transformation"

\* The records handed to add_transformation so far, in call order.
RecordsPassed ==
    LET calls == SelectSeq(ledgerCalls, IsAddTransformationCall)
    IN  [i \in 1..Len(calls) |-> calls[i].record]

IsPrefix(s, t) == Len(s) <= Len(t) /\ SubSeq(t, 1, Len(s)) = s

\* The number of records of the chain whose node_id is id.
RecordsOf(id) ==
    Cardinality({i \in 1..Len(provenance.transformation_chain) :
                    provenance.transformation_chain[i].node_id = id})

\* C14: verify_signatures() is false on the fresh ledger; in every state it is
\* true exactly when some add_signature call has been made; once true it stays
\* true.
C14_VerifyTrueIffSignatureAdded ==
    /\ ~verify_signatures
    /\ [](verify_signatures <=>
            \E i \in 1..Len(ledgerCalls) : IsAddSignatureCall(ledgerCalls[i]))
    /\ [][verify_signatures => verify_signatures']_vars

C14_Witness ==
    /\ verify_signatures
    /\ Len(ledgerCalls) = 3
    /\ IsAddTransformationCall(ledgerCalls[1])
    /\ IsAddSignatureCall(ledgerCalls[2])
    /\ IsAddTransformationCall(ledgerCalls[3])
    /\ provenance.signatures[1].public_key = None

\* C15: the transformation_chain equals the records passed to
\* add_transformation in call order, and every step (add_signature and the
\* graph's operations included) keeps the earlier chain as a prefix.
C15_ChainAppendOnly ==
    /\ [](provenance.transformation_chain = RecordsPassed)
    /\ [][IsPrefix(provenance.transformation_chain,
                   provenance.transformation_chain')]_vars

C15_Witness ==
    /\ Len(provenance.transformation_chain) = 2
    /\ provenance.transformation_chain[1].node_id = 2
    /\ provenance.transformation_chain[2].node_id = 1
    /\ Len(provenance.signatures) = 2
    /\ IsAddSignatureCall(ledgerCalls[2])
    /\ IsAddSignatureCall(ledgerCalls[4])

\* C16: the chain holds exactly one record for each node of the graph whose
\* status is Completed, and none for a node that is not Completed or not in
\* the graph.
C16_OneRecordPerCompletedNode ==
    \A id \in Created \cup {provenance.transformation_chain[i].node_id :
                               i \in 1..Len(provenance.transformation_chain)} :
        RecordsOf(id) = IF id \in DOMAIN nodes /\ nodes[id].status = "Completed"
                        THEN 1 ELSE 0

\* ------------------------------------------------ add_edge and add_node
\* Every id a caller can name, constructed or not.
AnyIds == 1..MaxNodes

\* The edge source -> target would close a directed cycle of the edge list.
ClosesCycle(source, target) ==
    source = target \/ <<target, source>> \in TransitiveClosure(EdgePairs)

\* The nodes a caller can hand to add_node: one it constructed, or a clone of a
\* stored one.
AddNodeInputs ==
    {pending[id] : id \in DOMAIN pending} \cup UNION {ClonesOf(id) : id \in DOMAIN nodes}

\* C17: add_edge is enabled for any source and target (absent ids, source =
\* target, cycle-closing), and a call appends exactly the edge (source, target,
\* data_ref, edge_type, empty metadata) at the end of the edge list, leaving
\* the node map, root_nodes and the graph status unchanged.
C17_AddEdgeAppendsUnconditionally ==
    /\ [](\A s \in AnyIds, t \in AnyIds, d \in DataRefs, ty \in EdgeTypes :
            ENABLED add_edge(s, t, d, ty))
    /\ [][\A s \in AnyIds, t \in AnyIds, d \in DataRefs, ty \in EdgeTypes :
            add_edge(s, t, d, ty) =>
                /\ edges' = Append(edges, [source |-> s, target |-> t, data_ref |-> d,
                                           edge_type |-> ty, metadata |-> {}])
                /\ UNCHANGED <<nodes, root_nodes, status>>]_vars

C17_Witness ==
    /\ Len(edges) = 2
    /\ edges[1].source = 2 /\ edges[1].target = 2 /\ 2 \notin DOMAIN nodes
    /\ edges[2].source = 1 /\ edges[2].target = 2 /\ 1 \in DOMAIN nodes
    /\ root_nodes = <<1>>
    /\ status = "Executing"

\* C18: an add_edge call that names an id absent from the node map, or that
\* closes a directed cycle, leaves nodes, edges, root_nodes and status as they
\* were.
C18_AddEdgeTransactional ==
    [][\A s \in AnyIds, t \in AnyIds, d \in DataRefs, ty \in EdgeTypes :
          (/\ add_edge(s, t, d, ty)
           /\ (s \notin DOMAIN nodes \/ t \notin DOMAIN nodes \/ ClosesCycle(s, t)))
          => UNCHANGED <<nodes, edges, root_nodes, status>>]_vars

C20_IsAcyclicIffDag ==
    acyclic # None => (acyclic = Some(TRUE) <=> ~HasDirectedCycle)

\* ----------------------------------------------------------- SpecStatus
\* A caller that builds a graph, writes the public field status (the only way
\* PartiallyCompleted, Failed and Cancelled arise) and calls the mark_* methods.
AssignStatus ==
    \E s \in GraphStatuses :
        /\ status' = s
        /\ UNCHANGED <<pending, nodes, root_nodes, edges, started_at, completed_at, prev_status,
                       acyclic, addedEmpty, returned, provenance, ledgerCalls, node, clock, pc, workerLog, agent, lookup, context>>

NextStatus ==
    \/ NewNode
    \/ AddNode
    \/ AddEdge
    \/ AssignStatus
    \/ GraphMarkReady
    \/ GraphMarkExecuting
    \/ GraphMarkCompleted

SpecStatus == Init /\ [][NextStatus]_vars

\* C21: from each of the seven graph statuses mark_ready, mark_executing and
\* mark_completed are enabled and yield Ready, Executing and Completed, and
\* none of them changes nodes, edges or root_nodes.
C21_GraphMarksUnconditional ==
    /\ [](status \in GraphStatuses
          /\ ENABLED Graph_mark_ready
          /\ ENABLED Graph_mark_executing
          /\ ENABLED Graph_mark_completed)
    /\ [][/\ Graph_mark_ready => status' = "Ready"
          /\ Graph_mark_executing => status' = "Executing"
          /\ Graph_mark_completed => status' = "Completed"
          /\ (Graph_mark_ready \/ Graph_mark_executing \/ Graph_mark_completed)
                => UNCHANGED <<nodes, edges, root_nodes>>]_vars

C21_Witness ==
    /\ prev_status = Some("Constructing")
    /\ status = "Completed"
    /\ DOMAIN nodes = {1, 2}
    /\ Len(edges) = 2
    /\ root_nodes # <<>>

\* C22: mark_completed and mark_failed on a node that is already Completed or
\* Failed are enabled, and afterwards status and completed_at are those of the
\* latest call only.
C22_TerminalNodeOverwritten ==
    /\ [](node # None => ENABLED NodeMarkCompleted /\ ENABLED NodeMarkFailed)
    /\ [][(node # None /\ node[1].status \in {"Completed", "Failed"}) =>
            /\ \A m \in MetricsInputs : IsMarkCompleted(m) =>
                  node'[1].status = "Completed" /\ node'[1].completed_at = Some(clock)
            /\ \A e \in ErrorInputs : IsMarkFailed(e) =>
                  node'[1].status = "Failed" /\ node'[1].completed_at = Some(clock)]_vars

C22_Witness ==
    /\ node # None
    /\ node[1].status = "Failed"
    /\ node[1].metrics = SampleMetrics
    /\ node[1].started_at = 0
    /\ node[1].completed_at = Some(MaxClock)
    /\ node[1].error = Some("timeout")

\* C23: a newly constructed node has status Pending, no completed_at, no error,
\* empty input and output lists and the default metrics (all counters 0, both
\* scores 1.0), and its id differs from the id of every node constructed before.
C23_NewNodeDefaults ==
    [][new_node("skill", "agent") =>
         /\ DOMAIN pending' \ DOMAIN pending # {}
         /\ \A k \in DOMAIN pending' \ DOMAIN pending :
              /\ pending'[k].status = "Pending"
              /\ pending'[k].completed_at = None
              /\ pending'[k].error = None
              /\ pending'[k].inputs = <<>>
              /\ pending'[k].outputs = <<>>
              /\ pending'[k].metrics =
                    [cpu_time_ms |-> 0, memory_bytes |-> 0, network_bytes |-> 0,
                     disk_bytes |-> 0, retry_count |-> 0,
                     quality_score |-> 100, confidence_score |-> 100]
              /\ \A o \in KnownNodes : o.id # pending'[k].id]_vars

C23_Witness ==
    /\ Cardinality({n.id : n \in KnownNodes}) = 3
    /\ Cardinality(DOMAIN nodes) = 2
    /\ \E k \in DOMAIN pending :
          pending[k].status = "Pending" /\ pending[k].metrics = DefaultMetrics
    /\ edges # <<>>

IsMarkExecuting ==
    node # None /\ node' = Some(DtgNode_mark_executing(node[1], clock)) /\ clock' = clock

C25_AddSignatureAppendsOne ==
    /\ [](Len(provenance.signatures) = Len(SelectSeq(ledgerCalls, IsAddSignatureCall)))
    /\ [][\A signer \in SignerInputs, alg \in AlgorithmInputs, sig \in SignatureInputs :
            add_signature(signer, alg, sig) =>
                /\ Len(provenance'.signatures) = Len(provenance.signatures) + 1
                /\ IsPrefix(provenance.signatures, provenance'.signatures)
                /\ LET e == provenance'.signatures[Len(provenance'.signatures)]
                   IN  /\ e.signer = signer
                       /\ e.algorithm = alg
                       /\ e.signature = sig
                       /\ e.public_key = None
                /\ provenance'.dtg_id = provenance.dtg_id
                /\ provenance'.transformation_chain = provenance.transformation_chain]_vars

C25_Witness ==
    /\ Len(provenance.signatures) = 2
    /\ provenance.signatures[1].signer = "bob"
    /\ provenance.signatures[2].signer = "bob"
    /\ Len(provenance.transformation_chain) = 1
    /\ IsAddTransformationCall(ledgerCalls[1])

\* ------------------------------------------------------------ JSON form
\* serde's derived Serialize / Deserialize with serde_json: a struct is an
\* object of its fields, a Vec an array, None is null, a Uuid and a DateTime
\* are strings, a unit variant of an enum is its renamed tag.
JNull == [kind |-> "null"]
JString(s) == [kind |-> "string", value |-> s]
JNumber(n) == [kind |-> "number", value |-> n]
JArray(s) == [kind |-> "array", value |-> s]
JObject(f) == [kind |-> "object", value |-> f]

\* The ids and times a string can stand for.
IdSpace == 0..(MaxNodes + DfsNodes)
TimeSpace == 0..MaxClock

serialize_Uuid(id) == JString(ToString(id))
deserialize_Uuid(j) == CHOOSE k \in IdSpace : ToString(k) = j.value

serialize_DateTime(t) == JString(ToString(t))
deserialize_DateTime(j) == CHOOSE t \in TimeSpace : ToString(t) = j.value

\* #[serde(rename_all = "snake_case")] on DtgNodeStatus.
NodeStatusTag ==
    [Pending |-> "pending", Executing |-> "executing", Completed |-> "completed",
     Failed |-> "failed", Cancelled |-> "cancelled", Waiting |-> "waiting"]

\* rename_all = "lowercase" on DtgGraphStatus.
GraphStatusTagLowercase ==
    [Constructing |-> "constructing", Ready |-> "ready", Executing |-> "executing",
     Completed |-> "completed", PartiallyCompleted |-> "partiallycompleted",
     Failed |-> "failed", Cancelled |-> "cancelled"]

\* #[serde(rename_all = "snake_case")] on DtgGraphStatus.
GraphStatusTag ==
    [Constructing |-> "constructing", Ready |-> "ready", Executing |-> "executing",
     Completed |-> "completed", PartiallyCompleted |-> "partially_completed",
     Failed |-> "failed", Cancelled |-> "cancelled"]

serialize_DtgNodeStatus(v) == JString(NodeStatusTag[v])
deserialize_DtgNodeStatus(j) == CHOOSE v \in NodeStatuses : NodeStatusTag[v] = j.value

serialize_DtgGraphStatus(v) == JString(GraphStatusTag[v])
deserialize_DtgGraphStatus(j) == CHOOSE v \in GraphStatuses : GraphStatusTag[v] = j.value

\* A DtgDataRef, named by its id.
serialize_DtgDataRef(d) == JObject([id |-> JString(d)])
deserialize_DtgDataRef(j) == j.value.id.value

serialize_DataRefs(ds) == JArray([i \in 1..Len(ds) |-> serialize_DtgDataRef(ds[i])])
deserialize_DataRefs(j) == [i \in 1..Len(j.value) |-> deserialize_DtgDataRef(j.value[i])]

\* HashMap<String, serde_json::Value>, always empty in the model.
serialize_Metadata(m) == JObject(<<>>)
deserialize_Metadata(j) == {}

serialize_OptionDateTime(o) == IF o = None THEN JNull ELSE serialize_DateTime(o[1])
deserialize_OptionDateTime(j) == IF j = JNull THEN None ELSE Some(deserialize_DateTime(j))

serialize_OptionString(o) == IF o = None THEN JNull ELSE JString(o[1])
deserialize_OptionString(j) == IF j = JNull THEN None ELSE Some(j.value)

serialize_DtgMetrics(m) ==
    JObject([cpu_time_ms |-> JNumber(m.cpu_time_ms), memory_bytes |-> JNumber(m.memory_bytes),
             network_bytes |-> JNumber(m.network_bytes), disk_bytes |-> JNumber(m.disk_bytes),
             retry_count |-> JNumber(m.retry_count), quality_score |-> JNumber(m.quality_score),
             confidence_score |-> JNumber(m.confidence_score)])

deserialize_DtgMetrics(j) ==
    [cpu_time_ms |-> j.value.cpu_time_ms.value, memory_bytes |-> j.value.memory_bytes.value,
     network_bytes |-> j.value.network_bytes.value, disk_bytes |-> j.value.disk_bytes.value,
     retry_count |-> j.value.retry_count.value, quality_score |-> j.value.quality_score.value,
     confidence_score |-> j.value.confidence_score.value]

serialize_DtgNode(n) ==
    JObject([id |-> serialize_Uuid(n.id), skill_id |-> JString(n.skill_id),
             agent_id |-> JString(n.agent_id), inputs |-> serialize_DataRefs(n.inputs),
             outputs |-> serialize_DataRefs(n.outputs),
             metadata |-> serialize_Metadata(n.metadata),
             started_at |-> serialize_DateTime(n.started_at),
             completed_at |-> serialize_OptionDateTime(n.completed_at),
             status |-> serialize_DtgNodeStatus(n.status),
             error |-> serialize_OptionString(n.error),
             metrics |-> serialize_DtgMetrics(n.metrics)])

deserialize_DtgNode(j) ==
    [id |-> deserialize_Uuid(j.value.id), skill_id |-> j.value.skill_id.value,
     agent_id |-> j.value.agent_id.value, inputs |-> deserialize_DataRefs(j.value.inputs),
     outputs |-> deserialize_DataRefs(j.value.outputs),
     metadata |-> deserialize_Metadata(j.value.metadata),
     started_at |-> deserialize_DateTime(j.value.started_at),
     completed_at |-> deserialize_OptionDateTime(j.value.completed_at),
     status |-> deserialize_DtgNodeStatus(j.value.status),
     error |-> deserialize_OptionString(j.value.error),
     metrics |-> deserialize_DtgMetrics(j.value.metrics)]

\* The data_ref of an edge is a Uuid, named like the DtgDataRef it points to.
serialize_DtgEdge(e) ==
    JObject([source |-> serialize_Uuid(e.source), target |-> serialize_Uuid(e.target),
             data_ref |-> JString(e.data_ref), edge_type |-> JString(e.edge_type),
             metadata |-> serialize_Metadata(e.metadata)])

deserialize_DtgEdge(j) ==
    [source |-> deserialize_Uuid(j.value.source), target |-> deserialize_Uuid(j.value.target),
     data_ref |-> j.value.data_ref.value, edge_type |-> j.value.edge_type.value,
     metadata |-> deserialize_Metadata(j.value.metadata)]

\* The graph as one value (the fields the model keeps).
Graph ==
    [id |-> GraphId, root_nodes |-> root_nodes, nodes |-> nodes, edges |-> edges,
     started_at |-> started_at, completed_at |-> completed_at, status |-> status]

\* The node map is an object keyed by the ids' strings.
serialize_DataTransformationGraph(g) ==
    JObject([id |-> JString(g.id),
             root_nodes |-> JArray([i \in 1..Len(g.root_nodes) |->
                                        serialize_Uuid(g.root_nodes[i])]),
             nodes |-> JObject([k \in {ToString(id) : id \in DOMAIN g.nodes} |->
                                   serialize_DtgNode(g.nodes[deserialize_Uuid(JString(k))])]),
             edges |-> JArray([i \in 1..Len(g.edges) |-> serialize_DtgEdge(g.edges[i])]),
             started_at |-> serialize_DateTime(g.started_at),
             completed_at |-> serialize_OptionDateTime(g.completed_at),
             status |-> serialize_DtgGraphStatus(g.status)])

deserialize_DataTransformationGraph(j) ==
    [id |-> j.value.id.value,
     root_nodes |-> [i \in 1..Len(j.value.root_nodes.value) |->
                        deserialize_Uuid(j.value.root_nodes.value[i])],
     nodes |-> [id \in {deserialize_Uuid(JString(k)) : k \in DOMAIN j.value.nodes.value} |->
                   deserialize_DtgNode(j.value.nodes.value[ToString(id)])],
     edges |-> [i \in 1..Len(j.value.edges.value) |-> deserialize_DtgEdge(j.value.edges.value[i])],
     started_at |-> deserialize_DateTime(j.value.started_at),
     completed_at |-> deserialize_OptionDateTime(j.value.completed_at),
     status |-> deserialize_DtgGraphStatus(j.value.status)]

serialize_TransformationRecord(r) ==
    JObject([node_id |-> serialize_Uuid(r.node_id), agent_id |-> JString(r.agent_id),
             skill_id |-> JString(r.skill_id), inputs |-> serialize_DataRefs(r.inputs),
             outputs |-> serialize_DataRefs(r.outputs),
             parameters |-> serialize_Metadata(r.parameters),
             timestamp |-> serialize_DateTime(r.timestamp),
             transformation_hash |-> JString(r.transformation_hash)])

deserialize_TransformationRecord(j) ==
    [node_id |-> deserialize_Uuid(j.value.node_id), agent_id |-> j.value.agent_id.value,
     skill_id |-> j.value.skill_id.value, inputs |-> deserialize_DataRefs(j.value.inputs),
     outputs |-> deserialize_DataRefs(j.value.outputs),
     parameters |-> deserialize_Metadata(j.value.parameters),
     timestamp |-> deserialize_DateTime(j.value.timestamp),
     transformation_hash |-> j.value.transformation_hash.value]

serialize_CryptographicSignature(c) ==
    JObject([signer |-> JString(c.signer), algorithm |-> JString(c.algorithm),
             signature |-> JString(c.signature),
             public_key |-> serialize_OptionString(c.public_key),
             signed_at |-> serialize_DateTime(c.signed_at)])

deserialize_CryptographicSignature(j) ==
    [signer |-> j.value.signer.value, algorithm |-> j.value.algorithm.value,
     signature |-> j.value.signature.value,
     public_key |-> deserialize_OptionString(j.value.public_key),
     signed_at |-> deserialize_DateTime(j.value.signed_at)]

\* The lineage and agent record lists are always empty in the model.
serialize_DtgProvenance(p) ==
    JObject([dtg_id |-> JString(p.dtg_id),
             transformation_chain |->
                 JArray([i \in 1..Len(p.transformation_chain) |->
                            serialize_TransformationRecord(p.transformation_chain[i])]),
             input_lineage |-> JArray(<<>>), output_lineage |-> JArray(<<>>),
             agent_records |-> JArray(<<>>),
             signatures |->
                 JArray([i \in 1..Len(p.signatures) |->
                            serialize_CryptographicSignature(p.signatures[i])]),
             recorded_at |-> serialize_DateTime(p.recorded_at)])

deserialize_DtgProvenance(j) ==
    [dtg_id |-> j.value.dtg_id.value,
     transformation_chain |->
         [i \in 1..Len(j.value.transformation_chain.value) |->
             deserialize_TransformationRecord(j.value.transformation_chain.value[i])],
     input_lineage |-> j.value.input_lineage.value,
     output_lineage |-> j.value.output_lineage.value,
     agent_records |-> j.value.agent_records.value,
     signatures |->
         [i \in 1..Len(j.value.signatures.value) |->
             deserialize_CryptographicSignature(j.value.signatures.value[i])],
     recorded_at |-> deserialize_DateTime(j.value.recorded_at)]

\* ------------------------------------------------------------ SpecSerde
\* A caller that builds a graph and its ledger, reports completions, writes
\* the status field, and may serialize both at any time.
NextSerde ==
    \/ NewNode
    \/ AddNode
    \/ AddEdge
    \/ StoredMarkCompleted
    \/ AssignStatus
    \/ AddTransformation
    \/ AddSignature

SpecSerde == Init /\ [][NextSerde]_vars

C27_GraphCompletedAtOnlyWhenCompleted ==
    status \in {"Constructing", "Ready", "Executing"} => completed_at = None

\* C28: root_nodes never holds the same id twice, also after add_node is called
\* again with a node whose id is already in the node map.
C28_RootNodesDistinct ==
    \A i \in 1..Len(root_nodes), j \in 1..Len(root_nodes) :
        i # j => root_nodes[i] # root_nodes[j]

\* C29: in one is_acyclic() call, for every order of the keys, has_cycle_dfs is
\* entered at most once per id; when the loop runs to its end every node of the
\* map has been entered; and a cycle among added nodes is detected whichever
\* node is visited first (also in a component unconnected to it).
C29_OuterLoopCoversComponents ==
    \A keys \in KeyOrders(DOMAIN nodes) :
        LET r == OuterLoop(keys, 1, {}, {}, <<>>)
        IN  /\ \A i \in 1..Len(r.entered), j \in 1..Len(r.entered) :
                  i # j => r.entered[i] # r.entered[j]
            /\ r.result => DOMAIN nodes \subseteq Range(r.entered)
            /\ (EndpointsExist /\ HasDirectedCycle) => ~r.result

C29_Witness ==
    /\ DOMAIN nodes = {1, 2, 3}
    /\ EdgePairs = {<<2, 3>>, <<3, 2>>}
    /\ acyclic = Some(FALSE)
    /\ OuterLoop(<<1, 2, 3>>, 1, {}, {}, <<>>) = [result |-> FALSE, entered |-> <<1, 2, 3>>]

\* C30: the edge list of any state is a prefix of the edge list of every later
\* state: no add_node, add_edge or mark_* call removes, reorders or modifies
\* an existing edge.
C30_EdgesAppendOnly == [][IsPrefix(edges, edges')]_vars

C30_Witness ==
    /\ Len(edges) = 2
    /\ edges[1].source = 1 /\ edges[1].target = 2
    /\ edges[2].source = 2 /\ edges[2].target = 1
    /\ DOMAIN nodes = {1, 2}
    /\ nodes[1].status = "Completed"
    /\ status = "Completed"
    /\ prev_status = Some("Executing")

\* ---------------------------------------------------------- SpecWorkers
\* One worker per node of the graph; a worker issues lifecycle operations on
\* its own node, and the workers' operations interleave in any order.
LogOf(id) == IF id \in DOMAIN workerLog THEN workerLog[id] ELSE <<>>

Logged(id, o) == workerLog' = (id :> Append(LogOf(id), o)) @@ workerLog

WorkerMarkExecuting ==
    \E id \in DOMAIN nodes :
        /\ Len(LogOf(id)) < MaxOps
        /\ stored_mark_executing(id)
        /\ Logged(id, <<"mark_executing">>)
        /\ UNCHANGED <<pc, agent, lookup, context>>

WorkerMarkCompleted ==
    \E id \in DOMAIN nodes, m \in MetricsInputs :
        /\ Len(LogOf(id)) < MaxOps
        /\ stored_mark_completed(id, m)
        /\ Logged(id, <<"mark_completed", m>>)
        /\ UNCHANGED <<pc, agent, lookup, context>>

WorkerMarkFailed ==
    \E id \in DOMAIN nodes, e \in ErrorInputs :
        /\ Len(LogOf(id)) < MaxOps
        /\ stored_mark_failed(id, e)
        /\ Logged(id, <<"mark_failed", e>>)
        /\ UNCHANGED <<pc, agent, lookup, context>>

WorkerAddInput ==
    \E id \in DOMAIN nodes, d \in DataRefs :
        /\ Len(LogOf(id)) < MaxOps
        /\ stored_add_input(id, d)
        /\ Logged(id, <<"add_input", d>>)
        /\ UNCHANGED <<pc, agent, lookup, context>>

WorkerAddOutput ==
    \E id \in DOMAIN nodes, d \in DataRefs :
        /\ Len(LogOf(id)) < MaxOps
        /\ stored_add_output(id, d)
        /\ Logged(id, <<"add_output", d>>)
        /\ UNCHANGED <<pc, agent, lookup, context>>

NextWorkers ==
    \/ NewNode
    \/ AddNode
    \/ WorkerMarkExecuting
    \/ WorkerMarkCompleted
    \/ WorkerMarkFailed
    \/ WorkerAddInput
    \/ WorkerAddOutput

SpecWorkers == Init /\ [][NextWorkers]_vars

\* One worker running alone: its operations applied in order to its node.
RECURSIVE RunWorker(_, _, _)
RunWorker(n, log, i) ==
    IF i > Len(log) THEN n
    ELSE LET o == log[i]
             r == IF o[1] = "mark_executing" THEN DtgNode_mark_executing(n, clock)
                  ELSE IF o[1] = "mark_completed" THEN DtgNode_mark_completed(n, o[2], clock)
                  ELSE IF o[1] = "mark_failed" THEN DtgNode_mark_failed(n, o[2], clock)
                  ELSE IF o[1] = "add_input" THEN DtgNode_add_input(n, o[2])
                  ELSE DtgNode_add_output(n, o[2])
         IN  RunWorker(r, log, i + 1)

C32_RootsAreNodes ==
    \A i \in 1..Len(root_nodes) : root_nodes[i] \in DOMAIN nodes

C32_Witness ==
    /\ root_nodes = <<2, 1>>
    /\ DOMAIN nodes = {1, 2}
    /\ nodes[2].inputs # <<>>
    /\ nodes[1].status = "Executing"

\* The ids the edge list and the node map name.
GraphIds ==
    DOMAIN nodes \cup {edges[i].source : i \in 1..Len(edges)}
                 \cup {edges[i].target : i \in 1..Len(edges)}

\* C33: is_acyclic() ends with a result on every graph (cycles, self-loops,
\* parallel edges, edges to ids outside the node map), because has_cycle_dfs
\* is entered for an id of the graph only, and for no id a second time: the
\* number of entries is at most the number of ids.
C33_IsAcyclicTerminates ==
    \A keys \in KeyOrders(DOMAIN nodes) :
        LET r == OuterLoop(keys, 1, {}, {}, <<>>)
        IN  /\ is_acyclic(keys) \in BOOLEAN
            /\ Range(r.entered) \subseteq GraphIds
            /\ Len(r.entered) = Cardinality(Range(r.entered))
            /\ Len(r.entered) <= Cardinality(GraphIds)

C33_Witness ==
    /\ DOMAIN nodes = {1, 2}
    /\ edges # <<>> /\ Len(edges) = 3
    /\ EdgePairs = {<<1, 2>>, <<2, 3>>, <<3, 2>>}
    /\ acyclic = Some(FALSE)

\* C34: for a fixed node map and edge list is_acyclic() gives the same result
\* for every order in which the map yields its keys, and a call leaves the
\* graph unchanged.
C34_IsAcyclicOrderIndependent ==
    /\ [](\A k1 \in KeyOrders(DOMAIN nodes), k2 \in KeyOrders(DOMAIN nodes) :
            is_acyclic(k1) = is_acyclic(k2))
    /\ [][call_is_acyclic => UNCHANGED <<nodes, edges, root_nodes, status,
                                         started_at, completed_at>>]_vars

C34_Witness ==
    /\ DOMAIN nodes = {1, 2}
    /\ EdgePairs = {<<2, 1>>, <<1, 3>>, <<3, 3>>}
    /\ acyclic = Some(FALSE)
    /\ is_acyclic(<<1, 2>>) = is_acyclic(<<2, 1>>)

\* C35: through the node's methods the status is always Pending, Executing,
\* Completed or Failed, and Pending is never entered again once left.
C35_NodeStatusesReached ==
    /\ [](node # None => node[1].status \in {"Pending", "Executing", "Completed", "Failed"})
    /\ [][(node # None /\ node[1].status # "Pending") => node'[1].status # "Pending"]_vars

C35_Witness ==
    /\ node # None
    /\ node[1].status = "Executing"
    /\ node[1].completed_at # None
    /\ node[1].error = None
    /\ node[1].inputs # <<>>
    /\ node[1].metrics = DefaultMetrics

\* ---------------------------------------------------------------- Agent
ProtocolBindings == {"JsonRpc", "Grpc", "HttpJson"}
InterfaceUrls == {"https://test.com/jsonrpc", "https://test.com/http"}

AgentInterface(url, protocol_binding) ==
    [url |-> url, protocol_binding |-> protocol_binding, tenant |-> None]

Agent_new(id, supported_interfaces) ==
    [id |-> id, protocol_version |-> "1.0", version |-> "1.0.0",
     supported_interfaces |-> supported_interfaces, metadata |-> None,
     supports_extended_agent_card |-> Some(FALSE)]

\* iter().any(|interface| interface.protocol_binding == protocol)
supports_protocol(a, protocol) ==
    \E i \in 1..Len(a.supported_interfaces) :
        a.supported_interfaces[i].protocol_binding = protocol

\* iter().find(..): the scan of the interfaces from the i-th on.
RECURSIVE find_interface(_, _, _)
find_interface(interfaces, i, protocol) ==
    IF i > Len(interfaces) THEN None
    ELSE IF interfaces[i].protocol_binding = protocol THEN Some(interfaces[i])
    ELSE find_interface(interfaces, i + 1, protocol)

\* get_interface_url scanning from the back (rfind).
GetInterfaceUrlLast(a, protocol) ==
    LET rev == [i \in 1..Len(a.supported_interfaces) |->
                   a.supported_interfaces[Len(a.supported_interfaces) + 1 - i]]
        found == find_interface(rev, 1, protocol)
    IN  IF found = None THEN None ELSE Some(found[1].url)

get_interface_url(a, protocol) ==
    LET found == find_interface(a.supported_interfaces, 1, protocol)
    IN  IF found = None THEN None ELSE Some(found[1].url)

\* ------------------------------------------------------------ SpecAgent
\* An agent constructed with any list of interfaces, then asked about a
\* protocol binding.
InterfaceInputs == {AgentInterface(u, b) : u \in InterfaceUrls, b \in ProtocolBindings}

AgentNew ==
    /\ agent = None
    /\ \E n \in 0..MaxInterfaces : \E list \in [1..n -> InterfaceInputs] :
          agent' = Some(Agent_new("test-agent", list))
    /\ lookup' = None
    /\ UNCHANGED <<pending, nodes, root_nodes, edges, status, started_at, completed_at,
                   prev_status, acyclic, addedEmpty, returned, provenance, ledgerCalls,
                   node, clock, pc, workerLog, context>>

AgentLookup ==
    /\ agent # None
    /\ \E p \in ProtocolBindings :
          lookup' = Some([protocol |-> p,
                          supports |-> supports_protocol(agent[1], p),
                          url |-> get_interface_url(agent[1], p)])
    /\ UNCHANGED <<pending, nodes, root_nodes, edges, status, started_at, completed_at,
                   prev_status, acyclic, addedEmpty, returned, provenance, ledgerCalls,
                   node, clock, pc, workerLog, agent, context>>

NextAgent ==
    \/ AgentNew
    \/ AgentLookup

SpecAgent == Init /\ [][NextAgent]_vars

\* The positions of the agent's interfaces whose binding is p.
InterfacesWith(p) ==
    {i \in 1..Len(agent[1].supported_interfaces) :
        agent[1].supported_interfaces[i].protocol_binding = p}

\* C36: supports_protocol(p) is true exactly when get_interface_url(p) returns
\* a URL; the URL is that of the first interface, in supported_interfaces
\* order, whose binding is p; with no such interface the answers are false and
\* None.
C36_ProtocolSupportMatchesUrl ==
    lookup # None =>
        LET p == lookup[1].protocol
        IN  /\ lookup[1].supports <=> lookup[1].url # None
            /\ InterfacesWith(p) = {} => (~lookup[1].supports /\ lookup[1].url = None)
            /\ InterfacesWith(p) # {} =>
                  \E i \in InterfacesWith(p) :
                      /\ \A j \in InterfacesWith(p) : i <= j
                      /\ lookup[1].url = Some(agent[1].supported_interfaces[i].url)

C36_Witness ==
    /\ lookup # None
    /\ lookup[1].protocol = "HttpJson"
    /\ lookup[1].supports
    /\ lookup[1].url = Some("https://test.com/http")
    /\ Len(agent[1].supported_interfaces) = 2
    /\ agent[1].supported_interfaces[2].protocol_binding = "HttpJson"
    /\ agent[1].supported_interfaces[2].url = "https://test.com/jsonrpc"

\* --------------------------------------------------- McpSecurityContext
SecurityLevels == {"Low", "Medium", "High", "Critical"}
ComplianceStandards == {"Gdpr", "Hipaa", "PciDss", "Soc2", "Iso27001"}
ComplianceStatuses == {"NotImplemented", "PartiallyImplemented", "Implemented", "Verified"}
RequirementIds == {"GDPR-25", "A.9.2.1"}

\* McpSecurityContext::new: the defaults of the fields the methods touch.
McpSecurityContext_new(security_level) ==
    [protocol_version |-> "1.0.0", security_level |-> security_level,
     signature |-> "Ed25519", encryption |-> "AES-256-GCM",
     storage |-> "EncryptedDisk", authentication |-> "PublicKey",
     compliance |-> <<>>]

high_security ==
    [McpSecurityContext_new("High") EXCEPT !.signature = "Ed25519",
                                           !.encryption = "AES-256-GCM",
                                           !.storage = "Hsm",
                                           !.authentication = "MutualTls"]

\* add_compliance recording the requirement as already implemented.
AddComplianceImplemented(c, standard, requirement_id, description) ==
    [c EXCEPT !.compliance =
        Append(@, [standard |-> standard, requirement_id |-> requirement_id,
                   description |-> description, status |-> "Implemented"])]

add_compliance(c, standard, requirement_id, description) ==
    [c EXCEPT !.compliance =
        Append(@, [standard |-> standard, requirement_id |-> requirement_id,
                   description |-> description, status |-> "NotImplemented"])]

is_compliant(c, standard, requirement_id) ==
    \E i \in 1..Len(c.compliance) :
        /\ c.compliance[i].standard = standard
        /\ c.compliance[i].requirement_id = requirement_id
        /\ c.compliance[i].status \in {"Implemented", "Verified"}

\* -------------------------------------------------------------- SpecMcp
\* A security context constructed by new or high_security and changed by
\* add_compliance only.
McpNew ==
    /\ context = None
    /\ \E level \in SecurityLevels : context' = Some(McpSecurityContext_new(level))
    /\ UNCHANGED <<pending, nodes, root_nodes, edges, status, started_at, completed_at,
                   prev_status, acyclic, addedEmpty, returned, provenance, ledgerCalls,
                   node, clock, pc, workerLog, agent, lookup>>

McpHighSecurity ==
    /\ context = None
    /\ context' = Some(high_security)
    /\ UNCHANGED <<pending, nodes, root_nodes, edges, status, started_at, completed_at,
                   prev_status, acyclic, addedEmpty, returned, provenance, ledgerCalls,
                   node, clock, pc, workerLog, agent, lookup>>

McpAddCompliance ==
    /\ context # None
    /\ Len(context[1].compliance) < MaxCompliance
    /\ \E standard \in ComplianceStandards, id \in RequirementIds :
          context' = Some(add_compliance(context[1], standard, id, "description"))
    /\ UNCHANGED <<pending, nodes, root_nodes, edges, status, started_at, completed_at,
                   prev_status, acyclic, addedEmpty, returned, provenance, ledgerCalls,
                   node, clock, pc, workerLog, agent, lookup>>

NextMcp ==
    \/ McpNew
    \/ McpHighSecurity
    \/ McpAddCompliance

SpecMcp == Init /\ [][NextMcp]_vars

\* C37: for a context changed only through new, high_security and
\* add_compliance, is_compliant is false for every standard and requirement
\* id, and every recorded requirement has status NotImplemented.
C37_NeverCompliant ==
    context # None =>
        /\ \A standard \in ComplianceStandards, id \in RequirementIds :
              ~is_compliant(context[1], standard, id)
        /\ \A i \in 1..Len(context[1].compliance) :
              context[1].compliance[i].status = "NotImplemented"

C37_Witness ==
    /\ context # None
    /\ context[1].security_level = "High"
    /\ Len(context[1].compliance) = 2
    /\ context[1].compliance[1].standard = "Gdpr"
    /\ context[1].compliance[1].requirement_id = "GDPR-25"
    /\ context[1].compliance[2].standard = "Iso27001"
    /\ context[1].compliance[2].requirement_id = "A.9.2.1"
    /\ ~is_compliant(context[1], "Gdpr", "GDPR-25")

====
